---------------------------- MODULE Spec2Model ----------------------------
(***************************************************************************)
(* Model of the markdown-token-to-PDF renderer of src/src/utils/export.ts  *)
(* (class PdfRenderer, sanitizeForPdf, exportAsPDF).                       *)
(*                                                                         *)
(* Lengths are integers in units of 1/240 mm: the line height              *)
(* fontSize * 1.5 * 25.4 / 72 mm is exactly fontSize * 127 units, and the  *)
(* margins, paddings and spacings of the code are whole millimetres.       *)
(* A string is a sequence of characters; an ASCII character is written as  *)
(* itself ("a"), any other one by its code point ("u2192" is U+2192).     *)
(***************************************************************************)
EXTENDS Integers, Sequences, FiniteSets, TLC

(***************************************************************************)
(* Geometry and style constants                                            *)
(***************************************************************************)
\* units per millimetre: 25.4 / 72 * LINE_HEIGHT = 127 / 240
Unit == 240

mm(n) == n * Unit

MARGIN == mm(15)

\* jsPDF("p", "mm", "a4"): 210 mm x 297 mm
PageWidthMm == 210
PageHeightMm == 297

pageWidth == mm(PageWidthMm)
pageHeight == mm(PageHeightMm)
contentWidth == pageWidth - MARGIN * 2

\* the y below which nothing may be drawn: pageHeight - MARGIN
Bottom == pageHeight - MARGIN

FONT_SIZES == [h1 |-> 18, h2 |-> 15, h3 |-> 13, h4 |-> 11,
               body |-> 10, code |-> 9, small |-> 8]

\* (fontSize * LINE_HEIGHT * 25.4) / 72, in units
lineHeight(fontSize) == fontSize * 127

(***************************************************************************)
(* Strings                                                                 *)
(***************************************************************************)
NL == "\n"

\* the concatenation f(lo) \o ... \o f(hi), by halves
RECURSIVE FlatMap(_, _, _)
FlatMap(f(_), lo, hi) ==
  IF lo > hi THEN <<>>
  ELSE IF lo = hi THEN f(lo)
  ELSE LET mid == (lo + hi) \div 2
       IN  FlatMap(f, lo, mid) \o FlatMap(f, mid + 1, hi)

\* for (k = lo; k <= hi; k++) v = step(v, k), by halves.  v is a sequence
\* or a record.  (DOMAIN v # DOMAIN v is never true: it makes TLC evaluate v
\* before the next iterations instead of stacking them up.)
RECURSIVE ForEach(_, _, _, _)
ForEach(step(_, _), v, lo, hi) ==
  IF lo > hi \/ DOMAIN v # DOMAIN v THEN v
  ELSE IF lo = hi THEN step(v, lo)
  ELSE LET mid == (lo + hi) \div 2
       IN  ForEach(step, ForEach(step, v, lo, mid), mid + 1, hi)

\* n times s = step(s), by halves (s is a record)
RECURSIVE Steps(_, _, _)
Steps(step(_), s, n) ==
  IF n = 0 \/ DOMAIN s # DOMAIN s THEN s
  ELSE IF n = 1 THEN step(s)
  ELSE Steps(step, Steps(step, s, n \div 2), n - n \div 2)

\* while (s.stack is not empty) s = step(s): 1, 2, 4, ... steps at a time
\* (step leaves s alone once the stack is empty)
RECURSIVE Drain(_, _, _)
Drain(step(_), s, n) ==
  IF s.stack = <<>> THEN s ELSE Drain(step, Steps(step, s, n), 2 * n)

\* Array.prototype.join(sep) of an array of strings
Join(ss, sep) ==
  LET part(k) == IF k = 1 THEN ss[1] ELSE sep \o ss[k]
  IN  FlatMap(part, 1, Len(ss))

\* String.prototype.split("\n"): never empty, "" gives [""]
\* (the pieces of s[lo..hi], by halves: the last piece of the left half and
\* the first piece of the right half are one piece)
RECURSIVE SplitRange(_, _, _)
SplitRange(s, lo, hi) ==
  IF lo > hi THEN <<<<>>>>
  ELSE IF lo = hi THEN (IF s[lo] = NL THEN <<<<>>, <<>>>> ELSE <<<<s[lo]>>>>)
  ELSE LET mid == (lo + hi) \div 2
           L == SplitRange(s, lo, mid)
           R == SplitRange(s, mid + 1, hi)
       IN  SubSeq(L, 1, Len(L) - 1) \o <<L[Len(L)] \o R[1]>> \o Tail(R)

splitLines(s) == SplitRange(s, 1, Len(s))

\* the printable ASCII characters, U+0020 to U+007E (the grave accent by its
\* code point)
PrintableAscii ==
  { " ", "!", "\"", "#", "$", "%", "&", "'", "(", ")", "*", "+", ",", "-",
    ".", "/", "0", "1", "2", "3", "4", "5", "6", "7", "8", "9", ":", ";",
    "<", "=", ">", "?", "@", "A", "B", "C", "D", "E", "F", "G", "H", "I",
    "J", "K", "L", "M", "N", "O", "P", "Q", "R", "S", "T", "U", "V", "W",
    "X", "Y", "Z", "[", "\\", "]", "^", "_", "u0060", "a", "b", "c", "d", "e",
    "f", "g", "h", "i", "j", "k", "l", "m", "n", "o", "p", "q", "r", "s",
    "t", "u", "v", "w", "x", "y", "z", "{", "|", "}", "~" }

\* a replace that puts the replacement in front of the character it finds
replaceClassKeeping(s, class, rep) ==
  LET one(i) == IF s[i] \in class THEN rep \o <<s[i]>> ELSE <<s[i]>>
  IN  FlatMap(one, 1, Len(s))

\* a replace without the g flag: the first match only
replaceClassFirst(s, class, rep) ==
  LET hits == {i \in 1..Len(s) : s[i] \in class}
      one(i) == IF i \in hits /\ \A h \in hits : i <= h THEN rep ELSE <<s[i]>>
  IN  FlatMap(one, 1, Len(s))

\* String.prototype.replace(/[class]/g, rep)
replaceClass(s, class, rep) ==
  LET one(i) == IF s[i] \in class THEN rep ELSE <<s[i]>>
  IN  IF \A i \in 1..Len(s) : s[i] \notin class THEN s
      ELSE FlatMap(one, 1, Len(s))

\* String.prototype.replace(/literal/g, rep): leftmost, non-overlapping
RECURSIVE ReplaceLitFrom(_, _, _, _)
ReplaceLitFrom(s, pat, rep, i) ==
  IF i > Len(s) THEN <<>>
  ELSE IF i + Len(pat) - 1 <= Len(s) /\ SubSeq(s, i, i + Len(pat) - 1) = pat
       THEN rep \o ReplaceLitFrom(s, pat, rep, i + Len(pat))
       ELSE <<s[i]>> \o ReplaceLitFrom(s, pat, rep, i + 1)

replaceLit(s, pat, rep) ==
  IF \A i \in 1..Len(s) : s[i] # pat[1] THEN s
  ELSE ReplaceLitFrom(s, pat, rep, 1)

\* index of the first ">" at or after i, 0 when there is none
RECURSIVE FirstGt(_, _)
FirstGt(s, i) ==
  IF i > Len(s) THEN 0 ELSE IF s[i] = ">" THEN i ELSE FirstGt(s, i + 1)

\* String.prototype.replace(/<[^>]+>/g, "")
RECURSIVE StripTagsFrom(_, _)
StripTagsFrom(s, i) ==
  IF i > Len(s) THEN <<>>
  ELSE LET j == IF s[i] = "<" THEN FirstGt(s, i + 1) ELSE 0
       IN  IF j >= i + 2 THEN StripTagsFrom(s, j + 1)
           ELSE <<s[i]>> \o StripTagsFrom(s, i + 1)

stripTags(s) ==
  IF \A i \in 1..Len(s) : s[i] # "<" THEN s ELSE StripTagsFrom(s, 1)

\* String.prototype.trim() is truthy: some character is not white space
WhiteSpace == {" ", NL, "\t"}

trimIsEmpty(s) == \A i \in 1..Len(s) : s[i] \in WhiteSpace

(***************************************************************************)
(* sanitizeForPdf                                                          *)
(***************************************************************************)
UNICODE_TO_ASCII == <<
  [pattern |-> {"u250c", "u2510", "u2514", "u2518"},                     replacement |-> <<"+">>],
  [pattern |-> {"u251c", "u2524", "u252c", "u2534", "u253c"},                replacement |-> <<"+">>],
  [pattern |-> {"u2500", "u2501"},                               replacement |-> <<"-">>],
  [pattern |-> {"u2502", "u2503"},                               replacement |-> <<"|">>],
  [pattern |-> {"u2554", "u2557", "u255a", "u255d", "u2560", "u2563", "u2566", "u2569", "u256c"},
                                                         replacement |-> <<"+">>],
  [pattern |-> {"u2550"},                                    replacement |-> <<"=">>],
  [pattern |-> {"u2551"},                                    replacement |-> <<"|">>],
  [pattern |-> {"u25b6", "u25ba", "u2192", "u279c", "u27a4"},                replacement |-> <<">">>],
  [pattern |-> {"u25c0", "u25c4", "u2190"},                          replacement |-> <<"<">>],
  [pattern |-> {"u25bc", "u25be", "u2193"},                          replacement |-> <<"v">>],
  [pattern |-> {"u25b2", "u25b4", "u2191"},                          replacement |-> <<"^">>],
  [pattern |-> {"u2022", "u25cf", "u25cb", "u25e6", "u25c9", "u25ce"},           replacement |-> <<"*">>],
  [pattern |-> {"u25a0", "u25a1", "u25aa", "u25ab"},                     replacement |-> <<"#">>],
  [pattern |-> {"u2713", "u2714", "u2611"},                          replacement |-> <<"[", "x", "]">>],
  [pattern |-> {"u2717", "u2718", "u2610"},                          replacement |-> <<"[", " ", "]">>],
  [pattern |-> {"u2026"},                                    replacement |-> <<".", ".", ".">>],
  [pattern |-> {"u2013"},                                    replacement |-> <<"-", "-">>],
  [pattern |-> {"u2014"},                                    replacement |-> <<"-", "-", "-">>],
  [pattern |-> {"u2265"},                                    replacement |-> <<">", "=">>],
  [pattern |-> {"u2264"},                                    replacement |-> <<"<", "=">>],
  [pattern |-> {"u2260"},                                    replacement |-> <<"!", "=">>]
>>

\* a sanitizer that also turns every character left outside printable ASCII
\* into "?"
sanitizeToAscii(text) ==
  LET rule(result, k) == replaceClass(result, UNICODE_TO_ASCII[k].pattern,
                                      UNICODE_TO_ASCII[k].replacement)
      done == ForEach(rule, text, 1, Len(UNICODE_TO_ASCII))
  IN  [i \in 1..Len(done) |->
         IF done[i] \in PrintableAscii \/ done[i] = NL THEN done[i] ELSE "?"]

sanitizeForPdf(text) ==
  LET rule(result, k) == replaceClass(result, UNICODE_TO_ASCII[k].pattern,
                                      UNICODE_TO_ASCII[k].replacement)
  IN  ForEach(rule, text, 1, Len(UNICODE_TO_ASCII))

(***************************************************************************)
(* PdfRenderer: inline text                                                *)
(***************************************************************************)
stripInlineHtml(text) ==
  replaceLit(
    replaceLit(
      replaceLit(
        replaceLit(
          replaceLit(stripTags(text), <<"&", "a", "m", "p", ";">>, <<"&">>),
          <<"&", "l", "t", ";">>, <<"<">>),
        <<"&", "g", "t", ";">>, <<">">>),
      <<"&", "q", "u", "o", "t", ";">>, <<"\"">>),
    <<"&", "#", "3", "9", ";">>, <<"'">>)

RECURSIVE inlineTokensToText(_)
inlineTokensToText(tokens) ==
  LET part(k) ==
        IF "tokens" \in DOMAIN tokens[k] THEN inlineTokensToText(tokens[k].tokens)
        ELSE IF "text" \in DOMAIN tokens[k] THEN tokens[k].text
        ELSE <<>>
  IN  stripInlineHtml(FlatMap(part, 1, Len(tokens)))

(***************************************************************************)
(* jsPDF.splitTextToSize(text, maxWidth).  The library measures glyphs;    *)
(* here every glyph is 2 mm wide.  The text is split at line breaks and    *)
(* every piece is cut into segments of at most maxWidth; an empty piece    *)
(* gives one empty segment, so the result is never empty.                  *)
(***************************************************************************)
glyphWidth == mm(2)

Min(a, b) == IF a <= b THEN a ELSE b

fitChars(maxWidth) ==
  IF maxWidth \div glyphWidth < 1 THEN 1 ELSE maxWidth \div glyphWidth

\* the segments of one piece: n characters each, the last one the rest
segments(piece, n) ==
  IF Len(piece) <= n THEN <<piece>>
  ELSE [k \in 1..((Len(piece) + n - 1) \div n) |->
          SubSeq(piece, (k - 1) * n + 1, Min(k * n, Len(piece)))]

splitTextToSize(text, maxWidth) ==
  LET pieces == splitLines(text)
      segs(k) == segments(pieces[k], fitChars(maxWidth))
  IN  FlatMap(segs, 1, Len(pieces))

(***************************************************************************)
(* PdfRenderer: state and canvas                                           *)
(*                                                                         *)
(* A renderer is a record: y the cursor, pages the page count of its jsPDF *)
(* document, ops the drawing operations emitted so far in order.  History  *)
(* fields: es logs the ensureSpace calls made while the current top-level  *)
(* token is rendered, tok is the index of that token.                      *)
(***************************************************************************)
\* a constructor that leaves the document without its first page
PdfRendererWithoutPage ==
  [y |-> MARGIN, pages |-> 0, ops |-> <<>>, es |-> <<>>, tok |-> 0]

NewPdfRenderer ==
  [y |-> MARGIN, pages |-> 1, ops |-> <<>>, es |-> <<>>, tok |-> 0]

\* a drawing operation lands on the current page, the last one of the document
Draw(r, kind, x, y, w, h, text, src, i, d) ==
  [r EXCEPT !.ops = Append(@, [kind |-> kind, page |-> r.pages,
                               x |-> x, y |-> y, w |-> w, h |-> h,
                               text |-> text, src |-> src, i |-> i, d |-> d,
                               tok |-> r.tok])]

\* a text call that draws every text twice
pdfTextTwice(r, text, x, y, src, i, d) ==
  Draw(Draw(r, "text", x, y, 0, 0, text, src, i, d),
       "text", x, y, 0, 0, text, src, i, d)

pdfText(r, text, x, y, src, i, d) == Draw(r, "text", x, y, 0, 0, text, src, i, d)

\* pdf.line(x1, y, x2, y): all lines of the code are horizontal
pdfLine(r, x1, y, x2, src, i) == Draw(r, "line", x1, y, x2 - x1, 0, <<>>, src, i, 0)

pdfRect(r, x, y, w, h, src) == Draw(r, "rect", x, y, w, h, <<>>, src, 0, 0)

pdfRoundedRect(r, x, y, w, h, src) ==
  Draw(r, "roundedRect", x, y, w, h, <<>>, src, 0, 0)

\* an ensureSpace that adds the page and leaves the cursor where it was
ensureSpaceKeepsY(r, needed) ==
  LET brk == r.y + needed > pageHeight - MARGIN
      r1  == IF brk THEN [r EXCEPT !.pages = @ + 1] ELSE r
  IN  [r1 EXCEPT !.es = Append(@, [y0 |-> r.y, needed |-> needed,
                                   pages0 |-> r.pages,
                                   y1 |-> r1.y, pages1 |-> r1.pages])]

\* an ensureSpace that never starts a page
ensureSpaceNever(r, needed) ==
  [r EXCEPT !.es = Append(@, [y0 |-> r.y, needed |-> needed,
                              pages0 |-> r.pages,
                              y1 |-> r.y, pages1 |-> r.pages])]

\* an ensureSpace that goes back to the top of the page it is on
ensureSpaceSamePage(r, needed) ==
  LET brk == r.y + needed > pageHeight - MARGIN
      r1  == IF brk THEN [r EXCEPT !.y = MARGIN] ELSE r
  IN  [r1 EXCEPT !.es = Append(@, [y0 |-> r.y, needed |-> needed,
                                   pages0 |-> r.pages,
                                   y1 |-> r1.y, pages1 |-> r1.pages])]

\* an ensureSpace that adds two pages at a break
ensureSpaceSkipsPage(r, needed) ==
  LET brk == r.y + needed > pageHeight - MARGIN
      r1  == IF brk THEN [r EXCEPT !.pages = @ + 2, !.y = MARGIN] ELSE r
  IN  [r1 EXCEPT !.es = Append(@, [y0 |-> r.y, needed |-> needed,
                                   pages0 |-> r.pages,
                                   y1 |-> r1.y, pages1 |-> r1.pages])]

ensureSpace(r, needed) ==
  LET brk == r.y + needed > pageHeight - MARGIN
      r1  == IF brk THEN [r EXCEPT !.pages = @ + 1, !.y = MARGIN] ELSE r
  IN  [r1 EXCEPT !.es = Append(@, [y0 |-> r.y, needed |-> needed,
                                   pages0 |-> r.pages,
                                   y1 |-> r1.y, pages1 |-> r1.pages])]

\* an addSpace that starts a page when the space does not fit
addSpaceBreaking(r, amount) ==
  IF r.y + amount > pageHeight - MARGIN
  THEN [r EXCEPT !.pages = @ + 1, !.y = MARGIN]
  ELSE [r EXCEPT !.y = @ + amount]

addSpace(r, amount) == [r EXCEPT !.y = @ + amount]

wrapText(text) == splitTextToSize(text, contentWidth)

\* a writeLines that leaves the cursor on the line it drew
writeLinesInPlace(r, lines, fontSize, src) ==
  LET lineH == lineHeight(fontSize)
      line(q, k) ==
        LET q1 == ensureSpace(q, lineH)
        IN  pdfText(q1, lines[k], MARGIN, q1.y, src, k, 0)
  IN  ForEach(line, r, 1, Len(lines))

\* a writeLines that never asks for space
writeLinesUnchecked(r, lines, fontSize, src) ==
  LET lineH == lineHeight(fontSize)
      line(q, k) == addSpace(pdfText(q, lines[k], MARGIN, q.y, src, k, 0), lineH)
  IN  ForEach(line, r, 1, Len(lines))

writeLines(r, lines, fontSize, src) ==
  LET lineH == lineHeight(fontSize)
      line(q, k) ==
        LET q1 == ensureSpace(q, lineH)
        IN  addSpace(pdfText(q1, lines[k], MARGIN, q1.y, src, k, 0), lineH)
  IN  ForEach(line, r, 1, Len(lines))

(***************************************************************************)
(* PdfRenderer: token renderers                                            *)
(***************************************************************************)
headingFontSize(depth) ==
  CASE depth = 1 -> FONT_SIZES.h1
    [] depth = 2 -> FONT_SIZES.h2
    [] depth = 3 -> FONT_SIZES.h3
    [] depth = 4 -> FONT_SIZES.h4
    [] OTHER     -> FONT_SIZES.body

\* the wrapped lines of a heading or a paragraph
inlineLines(token) == wrapText(sanitizeForPdf(inlineTokensToText(token.tokens)))

\* a renderHeading that underlines every depth
renderHeadingAlwaysRule(r, token) ==
  LET fontSize == headingFontSize(token.depth)
      lines    == inlineLines(token)
      r1 == addSpace(r, IF token.depth <= 2 THEN mm(6) ELSE mm(4))
      r2 == writeLines(r1, lines, fontSize, "heading")
      r3 == addSpace(pdfLine(r2, MARGIN, r2.y, MARGIN + contentWidth,
                             "h1rule", 0), mm(2))
  IN  addSpace(r3, mm(2))

renderHeading(r, token) ==
  LET fontSize == headingFontSize(token.depth)
      lines    == inlineLines(token)
      r1 == addSpace(r, IF token.depth <= 2 THEN mm(6) ELSE mm(4))
      r2 == writeLines(r1, lines, fontSize, "heading")
      r3 == IF token.depth = 1
            THEN addSpace(pdfLine(r2, MARGIN, r2.y, MARGIN + contentWidth,
                                  "h1rule", 0), mm(2))
            ELSE r2
  IN  addSpace(r3, mm(2))

renderParagraph(r, token) ==
  addSpace(writeLines(r, inlineLines(token), FONT_SIZES.body, "paragraph"),
           mm(3))

\* sanitizeForPdf(token.text).split("\n")
codeLinesOf(token) == splitLines(sanitizeForPdf(token.text))

\* a renderCode that continues a long line on extra lines
renderCodeWrapping(r, token) ==
  LET codeLines   == codeLinesOf(token)
      lineH       == lineHeight(FONT_SIZES.code)
      padding     == mm(3)
      blockHeight == Len(codeLines) * lineH + padding * 2
      r1 == ensureSpace(r, Min(blockHeight, mm(60)))
      bgHeight == Min(blockHeight, pageHeight - MARGIN - r1.y)
      r2 == pdfRoundedRect(r1, MARGIN, r1.y, contentWidth, bgHeight, "codeBg")
      codeLine(q, k) ==
        LET wrapped ==
              splitTextToSize(IF codeLines[k] = <<>> THEN <<" ">>
                              ELSE codeLines[k],
                              contentWidth - padding * 2)
            segment(p, n) ==
              LET p1 == ensureSpace(p, lineH)
              IN  addSpace(pdfText(p1, wrapped[n], MARGIN + padding, p1.y,
                                   "code", k, 0), lineH)
        IN  ForEach(segment, q, 1, Len(wrapped))
      r3 == ForEach(codeLine, addSpace(r2, padding), 1, Len(codeLines))
  IN  addSpace(addSpace(r3, padding), mm(3))

renderCode(r, token) ==
  LET codeLines   == codeLinesOf(token)
      lineH       == lineHeight(FONT_SIZES.code)
      padding     == mm(3)
      blockHeight == Len(codeLines) * lineH + padding * 2
      r1 == ensureSpace(r, Min(blockHeight, mm(60)))
      bgHeight == Min(blockHeight, pageHeight - MARGIN - r1.y)
      r2 == pdfRoundedRect(r1, MARGIN, r1.y, contentWidth, bgHeight, "codeBg")
      codeLine(q, k) ==
        LET q1 == ensureSpace(q, lineH)
            truncated ==
              splitTextToSize(IF codeLines[k] = <<>> THEN <<" ">>
                              ELSE codeLines[k],
                              contentWidth - padding * 2)
        IN  addSpace(pdfText(q1, truncated[1], MARGIN + padding, q1.y,
                             "code", k, 0), lineH)
      r3 == ForEach(codeLine, addSpace(r2, padding), 1, Len(codeLines))
  IN  addSpace(addSpace(r3, padding), mm(3))

\* the text one block child of a blockquote or list item contributes
childText(t) ==
  IF "tokens" \in DOMAIN t THEN inlineTokensToText(t.tokens)
  ELSE IF "text" \in DOMAIN t THEN t.text
  ELSE <<>>

\* the wrapped lines of a blockquote: its children's texts joined by " "
quoteLines(token) ==
  wrapText(sanitizeForPdf(
             Join([k \in 1..Len(token.tokens) |-> childText(token.tokens[k])],
                  <<" ">>)))

renderBlockquote(r, token) ==
  LET lines       == quoteLines(token)
      lineH       == lineHeight(FONT_SIZES.body)
      padding     == mm(3)
      blockHeight == Len(lines) * lineH + padding * 2
      r1 == ensureSpace(r, Min(blockHeight, mm(40)))
      r2 == pdfRoundedRect(r1, MARGIN, r1.y, contentWidth, blockHeight, "quoteBg")
      r3 == pdfRect(r2, MARGIN, r2.y, mm(1), blockHeight, "quoteBar")
      r4 == writeLines(addSpace(r3, padding), lines, FONT_SIZES.body, "quote")
  IN  addSpace(addSpace(r4, padding), mm(3))

isTextOrParagraph(t) == t.type = "text" \/ t.type = "paragraph"

\* a label that counts the items from 0
bulletFromZero(ordered, idx) ==
  IF ordered THEN <<ToString(idx), ".">> ELSE <<"-">>

\* `${idx + 1}.` for an ordered list (idx counts from 0), "-" otherwise
bulletOf(ordered, idx) ==
  IF ordered THEN <<ToString(idx + 1), ".">> ELSE <<"-">>

\* the first half of the body of token.items.forEach((item, idx) => ...):
\* the bullet and the wrapped lines of the item's own text
\* the wrapped lines of a list item's own text at the given indent
itemLines(item, indent) ==
  LET parts == SelectSeq(item.tokens, isTextOrParagraph)
      text  == sanitizeForPdf(
                 Join([k \in 1..Len(parts) |->
                         IF "tokens" \in DOMAIN parts[k]
                         THEN inlineTokensToText(parts[k].tokens)
                         ELSE parts[k].text],
                      <<" ">>))
  IN  splitTextToSize(text, contentWidth - indent * mm(5) - mm(8))

\* an item whose bullet is drawn before any space is asked for
renderItemLinesBulletFirst(r, token, idx, indent) ==
  LET lineH    == lineHeight(FONT_SIZES.body)
      indentMm == indent * mm(5)
      bullet   == bulletOf(token.ordered, idx)
      lines    == itemLines(token.items[idx + 1], indent)
      r2 == pdfText(r, bullet, MARGIN + indentMm, r.y, "bullet",
                    idx + 1, indent)
      line(q, k) ==
        LET q1 == ensureSpace(q, lineH)
        IN  addSpace(pdfText(q1, lines[k], MARGIN + indentMm + mm(5), q1.y,
                             "item", idx + 1, indent), lineH)
  IN  ForEach(line, r2, 1, Len(lines))

renderItemLines(r, token, idx, indent) ==
  LET lineH    == lineHeight(FONT_SIZES.body)
      indentMm == indent * mm(5)
      bullet   == bulletOf(token.ordered, idx)
      lines    == itemLines(token.items[idx + 1], indent)
      r1 == ensureSpace(r, lineH)
      r2 == pdfText(r1, bullet, MARGIN + indentMm, r1.y, "bullet",
                    idx + 1, indent)
      line(q, k) ==
        LET q1 == ensureSpace(q, lineH)
        IN  addSpace(pdfText(q1, lines[k], MARGIN + indentMm + mm(5), q1.y,
                             "item", idx + 1, indent), lineH)
  IN  ForEach(line, r2, 1, Len(lines))

\* renderList calls itself for every list among an item's tokens.  The calls
\* in progress are kept as a stack of frames: the list of the call, its
\* indent, the item the forEach is at (idx, from 0) and the position k of the
\* loop over item.tokens (0: the item's own text is still to be drawn).
\* a call that forgets the indent it was given
FrameWithoutIndent(token, indent) ==
  [token |-> token, indent |-> 0, idx |-> 0, k |-> 0]

Frame(token, indent) == [token |-> token, indent |-> indent, idx |-> 0, k |-> 0]

\* one step of the innermost call of renderList
renderListStep(s) ==
  IF s.stack = <<>> THEN s
  ELSE
    LET n == Len(s.stack)
        f == s.stack[n]
    IN  IF f.idx >= Len(f.token.items)
        THEN \* forEach is over: addSpace(3) and return to the caller
             [r |-> addSpace(s.r, mm(3)), stack |-> SubSeq(s.stack, 1, n - 1)]
        ELSE
          LET item == f.token.items[f.idx + 1]
          IN  IF f.k = 0
              THEN [r |-> renderItemLines(s.r, f.token, f.idx, f.indent),
                    stack |-> [s.stack EXCEPT ![n].k = 1]]
              ELSE IF f.k > Len(item.tokens)
              THEN [r |-> s.r,
                    stack |-> [s.stack EXCEPT ![n].idx = @ + 1, ![n].k = 0]]
              ELSE IF item.tokens[f.k].type = "list"
              THEN [r |-> s.r,
                    stack |-> Append([s.stack EXCEPT ![n].k = @ + 1],
                                     Frame(item.tokens[f.k], f.indent + 1))]
              ELSE [r |-> s.r, stack |-> [s.stack EXCEPT ![n].k = @ + 1]]

renderList(r, token, indent) ==
  Drain(renderListStep, [r |-> r, stack |-> <<Frame(token, indent)>>], 1).r

\* a column width that takes every table for one of two columns
colWidthOfTwo(colCount) == contentWidth \div 2

\* contentWidth / colCount; with no column the quotient is not finite and no
\* header cell uses it
colWidthOf(colCount) == IF colCount = 0 THEN 0 ELSE contentWidth \div colCount

\* the body of header.forEach / row.forEach: one text per cell
renderCells(r, cells, colWidth, cellPadding, src, row) ==
  LET cell(q, i) ==
        LET text == sanitizeForPdf(inlineTokensToText(cells[i + 1].tokens))
            truncated == splitTextToSize(text, colWidth - cellPadding * 2)
        IN  pdfText(q, truncated[1], MARGIN + i * colWidth + cellPadding, q.y,
                    src, row, i)
  IN  ForEach(cell, r, 0, Len(cells) - 1)

renderTable(r, token) ==
  LET cellPadding == mm(2)
      lineH       == lineHeight(FONT_SIZES.small)
      colCount    == Len(token.header)
      colWidth    == colWidthOf(colCount)
      r1 == ensureSpace(addSpace(r, mm(3)), lineH + cellPadding * 2)
      r2 == pdfRect(r1, MARGIN, r1.y, contentWidth, lineH + cellPadding * 2,
                    "thFill")
      r3 == pdfRect(r2, MARGIN, r2.y, contentWidth, lineH + cellPadding * 2,
                    "thBorder")
      r4 == renderCells(addSpace(r3, cellPadding), token.header, colWidth,
                        cellPadding, "th", 0)
      row(q, k) ==
        LET q1 == ensureSpace(q, lineH + cellPadding * 2)
            q2 == pdfLine(q1, MARGIN, q1.y, MARGIN + contentWidth, "rowRule", k)
            q3 == renderCells(addSpace(q2, cellPadding), token.rows[k],
                              colWidth, cellPadding, "td", k)
        IN  addSpace(q3, lineH + cellPadding)
      r5 == ForEach(row, addSpace(r4, lineH + cellPadding), 1, Len(token.rows))
      r6 == pdfLine(r5, MARGIN, r5.y, MARGIN + contentWidth, "tableRule", 0)
  IN  addSpace(r6, mm(5))

renderHr(r) ==
  LET r1 == addSpace(r, mm(4))
  IN  addSpace(pdfLine(r1, MARGIN, r1.y, MARGIN + contentWidth, "hr", 0), mm(4))

\* an html case that writes its text whatever it is
renderHtmlAlways(r, token) ==
  LET htmlText == sanitizeForPdf(stripInlineHtml(token.text))
  IN  addSpace(writeLines(r, wrapText(htmlText), FONT_SIZES.body, "html"), mm(3))

renderHtml(r, token) ==
  LET htmlText == sanitizeForPdf(stripInlineHtml(token.text))
  IN  IF ~trimIsEmpty(htmlText)
      THEN addSpace(writeLines(r, wrapText(htmlText), FONT_SIZES.body, "html"),
                    mm(3))
      ELSE r

renderToken(r, token) ==
  CASE token.type = "heading"    -> renderHeading(r, token)
    [] token.type = "paragraph"  -> renderParagraph(r, token)
    [] token.type = "code"       -> renderCode(r, token)
    [] token.type = "blockquote" -> renderBlockquote(r, token)
    [] token.type = "list"       -> renderList(r, token, 0)
    [] token.type = "table"      -> renderTable(r, token)
    [] token.type = "hr"         -> renderHr(r)
    [] token.type = "space"      -> addSpace(r, mm(2))
    [] token.type = "html"       -> renderHtml(r, token)
    [] OTHER                     -> r

\* PdfRenderer.render: the tokens in order; tok and es are the history of
\* the token being rendered
renderNext(r, token) == renderToken([r EXCEPT !.tok = @ + 1, !.es = <<>>], token)

render(r, tokens) ==
  LET token(q, k) == renderNext(q, tokens[k])
  IN  ForEach(token, r, 1, Len(tokens))

(***************************************************************************)
(* Input tokens (the shapes marked.lexer produces)                         *)
(***************************************************************************)
\* n lines "a", separated by line breaks
TextOfLines(n) == [i \in 1..(2 * n - 1) |-> IF i % 2 = 0 THEN NL ELSE "a"]

Inline(s) == <<[type |-> "text", text |-> s]>>

Heading(depth, n) ==
  [type |-> "heading", depth |-> depth, tokens |-> Inline(TextOfLines(n))]

Paragraph(n) == [type |-> "paragraph", tokens |-> Inline(TextOfLines(n))]

\* one line of n characters, wider than the page from 91 on
WideParagraph(n) == [type |-> "paragraph", tokens |-> Inline([i \in 1..n |-> "a"])]

Code(n) == [type |-> "code", text |-> TextOfLines(n)]

Blockquote(n) == [type |-> "blockquote", tokens |-> <<Paragraph(n)>>]

ItemText(n) ==
  [type |-> "text", text |-> TextOfLines(n), tokens |-> Inline(TextOfLines(n))]

ListItem(n, subs) == [type |-> "list_item", tokens |-> <<ItemText(n)>> \o subs]

List(ordered, items) == [type |-> "list", ordered |-> ordered, items |-> items]

\* a list whose single item holds a list, and so on down to indent d
NestedList(d) ==
  LET wrap(inner, k) == List(FALSE, <<ListItem(1, <<inner>>)>>)
  IN  ForEach(wrap, List(FALSE, <<ListItem(1, <<>>)>>), 1, d)

\* an ordered list of three items; the first holds an ordered list of two
\* items and an unordered list of one
OrderedTree ==
  List(TRUE,
       << ListItem(1, << List(TRUE, <<ListItem(1, <<>>), ListItem(2, <<>>)>>),
                         List(FALSE, <<ListItem(1, <<>>)>>) >>),
          ListItem(1, <<>>),
          ListItem(1, <<>>) >>)

Cell == [tokens |-> Inline(<<"c">>)]

Table(cols, rows) ==
  [type |-> "table",
   header |-> [i \in 1..cols |-> Cell],
   rows |-> [k \in 1..rows |-> [i \in 1..cols |-> Cell]]]

\* a table whose cells hold a text wider than the column, an empty text and
\* a short text
LongCell == [tokens |-> Inline([i \in 1..30 |-> "a"])]

EmptyCell == [tokens |-> Inline(<<>>)]

MixedTable ==
  [type |-> "table",
   header |-> <<Cell, LongCell, Cell, EmptyCell>>,
   rows |-> << <<EmptyCell, LongCell, Cell, LongCell>>,
               <<LongCell, Cell, EmptyCell, Cell>> >>]

Hr == [type |-> "hr"]
Space == [type |-> "space"]
HtmlText == [type |-> "html", text |-> <<"<", "b", ">", "h", "i", "<", "/", "b", ">">>]
HtmlComment == [type |-> "html", text |-> <<"<", "!", "-", "-", "x", "-", "-", ">", NL>>]
Def == [type |-> "def"]

\* tokens that break the lexer's invariants
EmptyList == List(FALSE, <<>>)
ShortRowTable ==
  [type |-> "table", header |-> <<Cell, Cell>>, rows |-> <<<<Cell>>>>]
NoHeaderTable == [type |-> "table", header |-> <<>>, rows |-> <<>>]

isMalformed(token) ==
  \/ token.type = "list" /\ Len(token.items) = 0
  \/ token.type = "table"
       /\ \/ Len(token.header) = 0
          \/ \E k \in 1..Len(token.rows) :
               Len(token.rows[k]) # Len(token.header)

NestDepth == 25

Tokens ==
  { Heading(1, 1), Heading(3, 1),
    Paragraph(1), Paragraph(42), Paragraph(50), WideParagraph(100),
    Code(3), Code(60),
    Blockquote(1), Blockquote(10),
    List(TRUE, <<ListItem(2, <<>>), ListItem(1, <<>>)>>), NestedList(NestDepth),
    OrderedTree,
    Table(2, 1), Table(3, 33),
    Hr, Space, HtmlText, HtmlComment, Def,
    EmptyList, ShortRowTable, NoHeaderTable }

\* the documents of the export calls: what marked.lexer makes of the fetched
\* markdown, up to MaxDocLen tokens
MaxDocLen == 2

DocTokens == { Paragraph(50), List(FALSE, <<ListItem(1, <<NestedList(1)>>)>>) }

Docs == UNION { [1..n -> DocTokens] : n \in 0..MaxDocLen }

(***************************************************************************)
(* State                                                                   *)
(*                                                                         *)
(* rend, hist, phase: one PdfRenderer and its render call.  hist is the    *)
(* history of the tokens rendered so far, each with the cursor, the page   *)
(* count and the number of operations at the moment its renderer started.  *)
(* pc, docOf, heap, inst, saved: the exportAsPDF calls.  heap holds the    *)
(* PdfRenderer objects constructed so far and inst[c] the object call c    *)
(* holds (0: none yet); saved[c] is the document call c handed to save;     *)
(* overlapped: some call began while another was awaiting its markdown.    *)
(* input, results: the argument a function or a render is applied to and   *)
(* the values returned so far.                                             *)
(***************************************************************************)
VARIABLES rend, hist, phase, pc, docOf, heap, inst, saved, overlapped,
          input, results, open, loading, fn

vars == <<rend, hist, phase, pc, docOf, heap, inst, saved, overlapped,
          input, results, open, loading, fn>>
renderVars == <<rend, hist, phase>>
exportVars == <<pc, docOf, heap, inst, saved, overlapped>>
pureVars == <<input, results>>
dropdownVars == <<open, loading, fn>>

\* ExportDropdown: the clicks on menu items, each one call of handleExport
MaxClicks == 4
Clicks == 1..MaxClicks

\* useState(false) twice; no handleExport has been called
InitDropdown ==
  /\ open = FALSE
  /\ loading = FALSE
  /\ fn = [k \in Clicks |-> "idle"]

Calls == {1, 2}

MaxTokens == 2

\* no render and no export call has begun
InitRenderer ==
  /\ rend = NewPdfRenderer
  /\ hist = <<>>
  /\ phase = "rendering"
  /\ pc = [c \in Calls |-> "idle"]
  /\ docOf = [c \in Calls |-> <<>>]
  /\ heap = <<>>
  /\ inst = [c \in Calls |-> 0]
  /\ saved = [c \in Calls |-> [pages |-> 0, ops |-> <<>>]]
  /\ overlapped = FALSE

Init ==
  /\ InitRenderer
  /\ InitDropdown
  /\ input = <<>>
  /\ results = <<>>

\* one iteration of the loop of render
RenderToken(token) ==
  /\ phase = "rendering"
  /\ Len(hist) < MaxTokens
  /\ rend' = renderNext(rend, token)
  /\ hist' = Append(hist, [token |-> token, y0 |-> rend.y,
                           pages0 |-> rend.pages, nops0 |-> Len(rend.ops)])
  /\ UNCHANGED <<phase, exportVars, pureVars, dropdownVars>>

\* the loop of render is over: the document is the caller's
RenderReturn ==
  /\ phase = "rendering"
  /\ phase' = "returned"
  /\ UNCHANGED <<rend, hist, exportVars, pureVars, dropdownVars>>

Next ==
  \/ \E token \in Tokens : RenderToken(token)
  \/ RenderReturn

Spec == Init /\ [][Next]_vars

(***************************************************************************)
(* A document of comment blocks set apart by blank lines, closed by        *)
(* paragraphs: the lexer yields html and space tokens in turn.             *)
(***************************************************************************)
MaxSpacingTokens == 264

MaxParagraphs == 2

isSpacing(token) == token.type = "space" \/ token.type = "html"

\* the paragraphs rendered so far
closings(h) == Cardinality({j \in 1..Len(h) : ~isSpacing(h[j].token)})

\* one loop iteration of render on the next comment block or blank lines
RenderSpacing ==
  /\ phase = "rendering"
  /\ Len(hist) < MaxSpacingTokens
  /\ closings(hist) = 0
  /\ LET token == IF Len(hist) % 2 = 0 THEN HtmlComment ELSE Space
     IN  /\ rend' = renderNext(rend, token)
         /\ hist' = Append(hist, [token |-> token, y0 |-> rend.y,
                                  pages0 |-> rend.pages,
                                  nops0 |-> Len(rend.ops)])
  /\ UNCHANGED <<phase, exportVars, pureVars, dropdownVars>>

\* one loop iteration of render on a closing paragraph
RenderClosing ==
  /\ phase = "rendering"
  /\ closings(hist) < MaxParagraphs
  /\ rend' = renderNext(rend, Paragraph(1))
  /\ hist' = Append(hist, [token |-> Paragraph(1), y0 |-> rend.y,
                           pages0 |-> rend.pages, nops0 |-> Len(rend.ops)])
  /\ UNCHANGED <<phase, exportVars, pureVars, dropdownVars>>

NextSpacing ==
  \/ RenderSpacing
  \/ RenderClosing
  \/ RenderReturn

SpecSpacing == Init /\ [][NextSpacing]_vars

(***************************************************************************)
(* exportAsPDF: the calls run on one thread and give way to each other     *)
(* only at await fetchMarkdown; what follows the await runs to its end.    *)
(***************************************************************************)
\* one renderer for the module, made by the first call and used by all
constructShared(h) == IF h = <<>> THEN <<NewPdfRenderer>> ELSE h

\* a new object whose cursor, pages and operations are module-level state:
\* it starts where the renderer made before it stands
constructOnModuleState(h) ==
  Append(h, IF h = <<>> THEN NewPdfRenderer ELSE h[Len(h)])

\* new PdfRenderer(): a new object on the heap
construct(h) == Append(h, NewPdfRenderer)

\* exportAsPDF up to its await: the request for the markdown is under way
ExportStart(c, doc) ==
  /\ pc[c] = "idle"
  /\ pc' = [pc EXCEPT ![c] = "fetching"]
  /\ docOf' = [docOf EXCEPT ![c] = doc]
  /\ overlapped' = (overlapped \/ \E d \in Calls \ {c} : pc[d] = "fetching")
  /\ UNCHANGED <<renderVars, pureVars, dropdownVars, heap, inst, saved>>

\* fetchMarkdown throws (the response is not ok): the call is rejected
FetchFail(c) ==
  /\ pc[c] = "fetching"
  /\ pc' = [pc EXCEPT ![c] = "failed"]
  /\ UNCHANGED <<renderVars, pureVars, dropdownVars, docOf, heap, inst, saved, overlapped>>

\* the markdown has arrived: lexer, new PdfRenderer(), render, save
ExportResume(c) ==
  /\ pc[c] = "fetching"
  /\ heap' = [construct(heap) EXCEPT
                ![Len(construct(heap))] = render(@, docOf[c])]
  /\ inst' = [inst EXCEPT ![c] = Len(heap')]
  /\ saved' = [saved EXCEPT ![c] = [pages |-> heap'[Len(heap')].pages,
                                    ops |-> heap'[Len(heap')].ops]]
  /\ pc' = [pc EXCEPT ![c] = "done"]
  /\ UNCHANGED <<renderVars, pureVars, dropdownVars, docOf, overlapped>>

NextExport ==
  \/ \E c \in Calls, doc \in Docs : ExportStart(c, doc)
  \/ \E c \in Calls : FetchFail(c)
  \/ \E c \in Calls : ExportResume(c)

SpecExport == Init /\ [][NextExport]_vars

(***************************************************************************)
(* sanitizeForPdf applied to a text, and once more to what it returned.    *)
(* The texts: every string of up to MaxTextLen characters over printable   *)
(* ASCII characters, characters of UNICODE_TO_ASCII and characters without *)
(* a rule (U+00E9 and U+4E2D), and the example of the specification.       *)
(***************************************************************************)
MaxTextLen == 3

Alphabet == {"a", ">", "u2192", "u2500", "u2713", "u2026", "u00e9", "u4e2d"}

\* "Step 1 -> Step 2 - done v" with U+2192, U+2500 and U+2713
ExampleText ==
  <<"S", "t", "e", "p", " ", "1", " ", "u2192", " ", "S", "t", "e", "p", " ",
    "2", " ", "u2500", " ", "d", "o", "n", "e", " ", "u2713">>

Texts == UNION { [1..n -> Alphabet] : n \in 0..MaxTextLen } \cup {ExampleText}

InitSanitize ==
  /\ InitRenderer
  /\ InitDropdown
  /\ input \in Texts
  /\ results = <<>>

\* sanitizeForPdf(input)
SanitizeInput ==
  /\ results = <<>>
  /\ results' = <<sanitizeForPdf(input)>>
  /\ UNCHANGED <<renderVars, exportVars, dropdownVars, input>>

\* sanitizeForPdf(sanitizeForPdf(input))
SanitizeResult ==
  /\ Len(results) = 1
  /\ results' = Append(results, sanitizeForPdf(results[1]))
  /\ UNCHANGED <<renderVars, exportVars, dropdownVars, input>>

NextSanitize ==
  \/ SanitizeInput
  \/ SanitizeResult

SpecSanitize == InitSanitize /\ [][NextSanitize]_vars

(***************************************************************************)
(* render of a whole document: the example of the specification            *)
(* (# Title, Hello world, a fenced block of three lines) and the other     *)
(* documents of up to MaxScenarioLen of its tokens, rules and long         *)
(* paragraphs.                                                             *)
(***************************************************************************)
MaxScenarioLen == 3

TitleHeading ==
  [type |-> "heading", depth |-> 1, tokens |-> Inline(<<"T", "i", "t", "l", "e">>)]

HelloParagraph ==
  [type |-> "paragraph",
   tokens |-> Inline(<<"H", "e", "l", "l", "o", " ", "w", "o", "r", "l", "d">>)]

AbcCode == [type |-> "code", text |-> <<"a", NL, "b", NL, "c">>]

ExampleTokens == <<TitleHeading, HelloParagraph, AbcCode>>

\* a line wider than the block, an empty line and a short line
WideCode ==
  [type |-> "code", text |-> [i \in 1..100 |-> "a"] \o <<NL, NL, "b">>]

ScenarioTokens ==
  {TitleHeading, HelloParagraph, AbcCode, Hr, Paragraph(50), Code(40), WideCode}

Scenarios == UNION { [1..n -> ScenarioTokens] : n \in 0..MaxScenarioLen }

InitScenario ==
  /\ InitRenderer
  /\ InitDropdown
  /\ input \in Scenarios
  /\ results = <<>>

\* one iteration of the loop of render(input)
RenderInput ==
  /\ phase = "rendering"
  /\ Len(hist) < Len(input)
  /\ rend' = renderNext(rend, input[Len(hist) + 1])
  /\ hist' = Append(hist, [token |-> input[Len(hist) + 1], y0 |-> rend.y,
                           pages0 |-> rend.pages, nops0 |-> Len(rend.ops)])
  /\ UNCHANGED <<phase, exportVars, pureVars, dropdownVars>>

\* the loop of render(input) is over
RenderInputEnd ==
  /\ phase = "rendering"
  /\ Len(hist) = Len(input)
  /\ phase' = "returned"
  /\ UNCHANGED <<rend, hist, exportVars, pureVars, dropdownVars>>

NextScenario ==
  \/ RenderInput
  \/ RenderInputEnd

SpecScenario == InitScenario /\ [][NextScenario]_vars

(***************************************************************************)
(* inlineTokensToText on inline trees: sequences of up to MaxInline text   *)
(* leaves, wrapped in up to MaxWrap wrapper tokens (strong, em, link),     *)
(* and a leaf followed by a wrapper.  The leaves hold the five entities,   *)
(* alone and after an escaped ampersand, as the lexer leaves them in       *)
(* token.text.                                                             *)
(***************************************************************************)
MaxInline == 3
MaxWrap == 2

LeafTexts ==
  { <<"a">>,
    <<"&", "l", "t", ";", "b", "&", "g", "t", ";">>,
    <<"&", "a", "m", "p", ";", "l", "t", ";">>,
    <<"&", "q", "u", "o", "t", ";", "&", "#", "3", "9", ";", "&", "a", "m", "p", ";">> }

Leaf(s) == [type |-> "text", text |-> s]

Wrapper(children) == [type |-> "strong", text |-> <<"*">>, tokens |-> children]

LeafSeqs == UNION { [1..n -> {Leaf(s) : s \in LeafTexts}] : n \in 0..MaxInline }

Wrapped(tokens, d) ==
  LET wrap(acc, k) == <<Wrapper(acc)>> IN ForEach(wrap, tokens, 1, d)

InlineInputs ==
  { Wrapped(q, d) : q \in LeafSeqs, d \in 0..MaxWrap }
    \cup { <<Leaf(s), Wrapper(<<Leaf(t)>>)>> : s \in LeafTexts, t \in LeafTexts }

InitInline ==
  /\ InitRenderer
  /\ InitDropdown
  /\ input \in InlineInputs
  /\ results = <<>>

InlineText ==
  /\ results = <<>>
  /\ results' = <<inlineTokensToText(input)>>
  /\ UNCHANGED <<renderVars, exportVars, dropdownVars, input>>

NextInline == InlineText

SpecInline == InitInline /\ [][NextInline]_vars

(***************************************************************************)
(* ExportDropdown: the toggle button (disabled while loading), the overlay *)
(* behind the menu, the menu items (rendered while open, never disabled),  *)
(* and the promise of each handleExport call, which resolves or rejects    *)
(* at any later moment.                                                    *)
(***************************************************************************)
\* onClick of the toggle button: setOpen(!open); disabled={loading}
ToggleMenu ==
  /\ ~loading
  /\ open' = ~open
  /\ UNCHANGED <<renderVars, exportVars, pureVars, loading, fn>>

\* onClick of the overlay, rendered while the menu is open
ClickOverlay ==
  /\ open
  /\ open' = FALSE
  /\ UNCHANGED <<renderVars, exportVars, pureVars, loading, fn>>

\* onClick of a menu item: handleExport up to its await
ClickItem(k) ==
  /\ open
  /\ fn[k] = "idle"
  /\ \A i \in Clicks : i < k => fn[i] # "idle"
  /\ loading' = TRUE
  /\ fn' = [fn EXCEPT ![k] = "pending"]
  /\ UNCHANGED <<renderVars, exportVars, pureVars, open>>

\* await fn() returns: the finally block
ExportResolves(k) ==
  /\ fn[k] = "pending"
  /\ fn' = [fn EXCEPT ![k] = "resolved"]
  /\ loading' = FALSE
  /\ open' = FALSE
  /\ UNCHANGED <<renderVars, exportVars, pureVars>>

\* await fn() throws: the catch block logs, then the finally block
ExportRejects(k) ==
  /\ fn[k] = "pending"
  /\ fn' = [fn EXCEPT ![k] = "rejected"]
  /\ loading' = FALSE
  /\ open' = FALSE
  /\ UNCHANGED <<renderVars, exportVars, pureVars>>

NextDropdown ==
  \/ ToggleMenu
  \/ ClickOverlay
  \/ \E k \in Clicks : ClickItem(k)
  \/ \E k \in Clicks : ExportResolves(k)
  \/ \E k \in Clicks : ExportRejects(k)

SpecDropdown == Init /\ [][NextDropdown]_vars

(***************************************************************************)
(* Properties                                                              *)
(***************************************************************************)
Ops == rend.ops

\* the drawing operations of the j-th token of the sequence, in order
OpsOfToken(j) == SelectSeq(Ops, LAMBDA op : op.tok = j)

\* C1: every drawing operation (text, line, rect, roundedRect) of a render
\* was emitted at a y with MARGIN <= y <= pageHeight - MARGIN, the line of
\* renderHr, the h1 underline and the table bottom border included.
C1_OpsWithinMargins ==
  \A k \in 1..Len(Ops) : MARGIN <= Ops[k].y /\ Ops[k].y <= pageHeight - MARGIN

\* C2: no rectangle straddles the page boundary: every rect and roundedRect
\* (code background, blockquote background and accent bar, table header fill
\* and border) drawn at y with height h has y + h <= pageHeight - MARGIN.
C2_RectsOnPage ==
  \A k \in 1..Len(Ops) :
    Ops[k].kind \in {"rect", "roundedRect"}
      => Ops[k].y + Ops[k].h <= pageHeight - MARGIN

\* what C3 says of one call: cursor and page count before, height asked for,
\* cursor and page count after
EnsureSpaceContract(y0, pages0, needed, y1, pages1) ==
  /\ y0 + needed > pageHeight - MARGIN => pages1 = pages0 + 1 /\ y1 = MARGIN
  /\ ~(y0 + needed > pageHeight - MARGIN) => pages1 = pages0 /\ y1 = y0
  /\ 0 <= needed /\ needed <= pageHeight - 2 * MARGIN
       => y1 + needed <= pageHeight - MARGIN

\* heights to ask ensureSpace for, from 0 to the usable page height
ProbeHeights ==
  { 0, lineHeight(FONT_SIZES.small), lineHeight(FONT_SIZES.h1), mm(40), mm(60),
    pageHeight - 2 * MARGIN }

\* C3: ensureSpace(h) adds exactly one page and resets y to MARGIN when
\* y + h > pageHeight - MARGIN and otherwise changes neither pages nor y; for
\* 0 <= h <= pageHeight - 2*MARGIN, y + h <= pageHeight - MARGIN holds on
\* return, also from a y past the bottom margin.  Stated of every call the
\* last token made and of a call with each probe height at the cursor reached.
C3_EnsureSpace ==
  /\ \A k \in 1..Len(rend.es) :
       EnsureSpaceContract(rend.es[k].y0, rend.es[k].pages0, rend.es[k].needed,
                           rend.es[k].y1, rend.es[k].pages1)
  /\ \A h \in ProbeHeights :
       EnsureSpaceContract(rend.y, rend.pages, h,
                           ensureSpace(rend, h).y, ensureSpace(rend, h).pages)

\* a call of ensureSpace that found the cursor past the bottom margin and
\* started a page
C3_Witness ==
  \E k \in 1..Len(rend.es) :
    /\ rend.es[k].y0 > pageHeight - MARGIN
    /\ rend.es[k].pages1 = rend.es[k].pages0 + 1
    /\ rend.es[k].y1 = MARGIN

\* C4: rendering never produces an empty page: when the render emits at
\* least one drawing operation, every page of the output, the first included,
\* holds at least one.
C4_NoEmptyPage ==
  Ops # <<>> => \A p \in 1..rend.pages : \E k \in 1..Len(Ops) : Ops[k].page = p

\* C5: the output has at least one page after any token sequence, and the
\* empty token sequence yields exactly one page, no drawing operation and the
\* cursor at the top margin.
C5_AtLeastOnePage ==
  /\ rend.pages >= 1
  /\ hist = <<>> => rend.pages = 1 /\ Ops = <<>> /\ rend.y = MARGIN

\* render has returned from the empty token sequence
C5_Witness == phase = "returned" /\ hist = <<>> /\ rend.pages = 1

\* C6: a render whose token sequence holds a malformed token (a list with no
\* item, a table with a row of another length than the header or with no
\* header) ends in an error and hands no document to the caller: it never
\* returns as a render of well-formed tokens does.
C6_MalformedRejected ==
  phase = "returned" => \A j \in 1..Len(hist) : ~isMalformed(hist[j].token)

\* one list off the worklist: its items and their lines are counted, the
\* lists inside its items go on the worklist
listSizeStep(s) ==
  IF s.stack = <<>> THEN s
  ELSE
    LET n     == Len(s.stack)
        f     == s.stack[n]
        items == f.token.items
        lines(i) == itemLines(items[i], f.indent)
        inner(i) ==
          LET sub(k) == IF items[i].tokens[k].type = "list"
                        THEN <<[token |-> items[i].tokens[k],
                                indent |-> f.indent + 1]>>
                        ELSE <<>>
          IN  FlatMap(sub, 1, Len(items[i].tokens))
    IN  [size  |-> s.size + Len(items) + Len(FlatMap(lines, 1, Len(items))),
         stack |-> SubSeq(s.stack, 1, n - 1) \o FlatMap(inner, 1, Len(items))]

\* the count of lines, items, rows and cells of one token: lines are the
\* lines drawn (wrapped text lines, code lines), cells include header cells
tokenSize(token) ==
  CASE token.type \in {"heading", "paragraph"} -> Len(inlineLines(token))
    [] token.type = "code"       -> Len(codeLinesOf(token))
    [] token.type = "blockquote" -> Len(quoteLines(token))
    [] token.type = "list" ->
         Drain(listSizeStep,
               [size |-> 0, stack |-> <<[token |-> token, indent |-> 0]>>],
               1).size
    [] token.type = "table" ->
         LET cells(k) == token.rows[k]
         IN  Len(token.rows) + Len(token.header)
               + Len(FlatMap(cells, 1, Len(token.rows)))
    [] token.type = "html" ->
         Len(wrapText(sanitizeForPdf(stripInlineHtml(token.text))))
    [] OTHER -> 0

RECURSIVE SizeUpTo(_)
SizeUpTo(j) == IF j = 0 THEN 0 ELSE tokenSize(hist[j].token) + SizeUpTo(j - 1)

\* the total count of lines, items, rows and cells of the tokens rendered
inputSize == SizeUpTo(Len(hist))

\* C7 (as the code has it): the drawing operations of a render are at most
\* the lines, items, rows and cells of its tokens plus three per token (rule,
\* background, borders), and the pages added are at most the operations; so
\* a code block longer than a page and a list nested to depth 25 end with
\* finitely many operations and pages.
C7_BoundedByInput ==
  /\ Len(Ops) <= 3 * Len(hist) + inputSize
  /\ rend.pages - 1 <= Len(Ops)

\* a render of a code block longer than a page and of a list nested to
\* depth 25 has returned
C7_Witness ==
  /\ phase = "returned"
  /\ \E j \in 1..Len(hist) :
       hist[j].token = Code(60) /\ Len(OpsOfToken(j)) = 61
         /\ \E k \in 1..Len(Ops) :
              Ops[k].tok = j /\ Ops[k].page > hist[j].pages0
  /\ \E j \in 1..Len(hist) :
       hist[j].token = NestedList(NestDepth)
         /\ \E k \in 1..Len(Ops) :
              Ops[k].tok = j /\ Ops[k].src = "item" /\ Ops[k].d = NestDepth

\* C7 (as stated): the number of drawing operations and the number of pages
\* added are bounded by the total count of lines, items, rows and cells of
\* the input.
C7_BoundedByCountAlone ==
  /\ Len(Ops) <= inputSize
  /\ rend.pages - 1 <= inputSize

\* the height of one table row: lineH + cellPadding * 2
rowHeight == lineHeight(FONT_SIZES.small) + mm(2) * 2

\* the height of header and body rows together
tableHeight(token) == (1 + Len(token.rows)) * rowHeight

\* where the header of the j-th token, a table, would be drawn on the page
\* the cursor stands on: below addSpace(3)
tableTop(j) == hist[j].y0 + mm(3)

higherThanSpaceLeft(j) ==
  tableTop(j) + tableHeight(hist[j].token) > pageHeight - MARGIN

pagesOfToken(j) == {Ops[k].page : k \in {k \in 1..Len(Ops) : Ops[k].tok = j}}

\* every row of the table (its top border line and its cell texts) lies on
\* one page; the bottom border is drawn once, as the last operation, on the
\* page of the last row and at the y where that row ends
RowsWholeAndClosed(j) ==
  LET ops == OpsOfToken(j)
      n   == Len(hist[j].token.rows)
      \* the operation that opens the last row: its border line, or the
      \* header fill when the table has no body row
      last == CHOOSE k \in 1..Len(ops) :
                IF n = 0 THEN ops[k].src = "thFill"
                ELSE ops[k].src = "rowRule" /\ ops[k].i = n
  IN  /\ \A k1, k2 \in 1..Len(ops) :
           /\ ops[k1].src \in {"rowRule", "td"}
           /\ ops[k2].src \in {"rowRule", "td"}
           /\ ops[k1].i = ops[k2].i
           => ops[k1].page = ops[k2].page
      /\ Cardinality({k \in 1..Len(ops) : ops[k].src = "tableRule"}) = 1
      /\ ops[Len(ops)].src = "tableRule"
      /\ ops[Len(ops)].page = ops[last].page
      /\ ops[Len(ops)].y = ops[last].y + rowHeight

\* C8 (as the code has it): a table higher than the space left on the page
\* makes the render start a page while the table is drawn; it lies on at
\* least 2 pages when its header row still fits in the space left or when it
\* is higher than the usable page height (otherwise the whole table moves to
\* the new page).  Each row lies on one page and the bottom border is drawn
\* once, after the last row, on that row's page, at the y where it ends.
C8_TableAcrossPages ==
  \A j \in 1..Len(hist) :
    hist[j].token.type = "table" =>
      /\ higherThanSpaceLeft(j) =>
           \E p \in pagesOfToken(j) : p > hist[j].pages0
      /\ /\ higherThanSpaceLeft(j)
         /\ \/ tableTop(j) + rowHeight <= pageHeight - MARGIN
            \/ tableHeight(hist[j].token) > pageHeight - 2 * MARGIN
         => Cardinality(pagesOfToken(j)) >= 2
      /\ RowsWholeAndClosed(j)

\* a table of 33 rows that starts on a fresh page, where its header fits, and
\* ends on the next one
C8_Witness ==
  \E j \in 1..Len(hist) :
    /\ hist[j].token = Table(3, 33)
    /\ higherThanSpaceLeft(j)
    /\ tableTop(j) + rowHeight <= pageHeight - MARGIN
    /\ Cardinality(pagesOfToken(j)) = 2
    /\ Len(OpsOfToken(j)) = 3 + 3 + 33 * 4

\* C8 (as stated): a table whose header and body rows together are higher
\* than the space left on the page is split across at least 2 pages, each
\* row on one page, the bottom border once after the last row on its page.
C8_SplitWheneverHigher ==
  \A j \in 1..Len(hist) :
    hist[j].token.type = "table" =>
      /\ higherThanSpaceLeft(j) => Cardinality(pagesOfToken(j)) >= 2
      /\ RowsWholeAndClosed(j)

\* the document a call hands to save when no other call runs
Alone(doc) ==
  LET r == render(NewPdfRenderer, doc) IN [pages |-> r.pages, ops |-> r.ops]

C10_CallsIsolated ==
  /\ \A c, d \in Calls :
       c # d /\ inst[c] # 0 /\ inst[d] # 0 => inst[c] # inst[d]
  /\ \A c \in Calls : pc[c] = "done" => saved[c] = Alone(docOf[c])

\* call 1 began while call 2 was awaiting its markdown, call 2 resumed
\* first, and both have saved documents with drawing operations
C10_Witness ==
  /\ overlapped
  /\ pc[1] = "done" /\ pc[2] = "done"
  /\ inst[2] = 1 /\ inst[1] = 2
  /\ docOf[1] # docOf[2]
  /\ saved[1].ops # <<>> /\ saved[2].ops # <<>>

\* the text lines ("item") of the list items of the j-th token, in order
itemOpsOfToken(j) == SelectSeq(Ops, LAMBDA op : op.tok = j /\ op.src = "item")

\* C11: in a list nested to depth d, 0 <= d <= 25, the bullet of a depth-d
\* item is drawn at x = MARGIN + 5*d and its text lines at
\* x = MARGIN + 5*d + 5; in the list nested one item per level the i-th
\* text is at depth i - 1 and starts at a strictly greater x than its parent.
C11_ListIndent ==
  /\ \A k \in 1..Len(Ops) :
       /\ Ops[k].src = "bullet" => Ops[k].x = MARGIN + mm(5) * Ops[k].d
       /\ Ops[k].src = "item" => Ops[k].x = MARGIN + mm(5) * Ops[k].d + mm(5)
  /\ \A j \in 1..Len(hist) :
       hist[j].token = NestedList(NestDepth) =>
         LET items == itemOpsOfToken(j)
         IN  /\ Len(items) = NestDepth + 1
             /\ \A i \in 1..Len(items) :
                  /\ items[i].d = i - 1
                  /\ i > 1 => items[i].x > items[i - 1].x

\* the deepest item of the nested list has been drawn, 25 levels in
C11_Witness ==
  \E k \in 1..Len(Ops) :
    /\ hist[Ops[k].tok].token = NestedList(NestDepth)
    /\ Ops[k].src = "item"
    /\ Ops[k].d = NestDepth
    /\ Ops[k].x = MARGIN + mm(5) * NestDepth + mm(5)

\* C12: sanitizeForPdf is idempotent: applied to what it returned, it
\* returns the same text again, for texts of ASCII characters, characters of
\* UNICODE_TO_ASCII and characters without a rule.
C12_SanitizeIdempotent ==
  Len(results) = 2 => results[2] = results[1]

\* the characters that have a rule in UNICODE_TO_ASCII
TableChars ==
  UNION {UNICODE_TO_ASCII[k].pattern : k \in 1..Len(UNICODE_TO_ASCII)}

\* a text with a table character and a character without a rule has been
\* sanitized twice, the first pass having changed it
C12_Witness ==
  /\ Len(results) = 2
  /\ results[1] # input
  /\ \E i \in 1..Len(input) : input[i] \in TableChars
  /\ \E i \in 1..Len(input) : input[i] = "u4e2d"

\* characters outside ASCII that the WinAnsi encoding of the built-in fonts
\* holds, among those of the texts: U+00E9 and, of the table, U+2022,
\* U+2026, U+2013, U+2014
WinAnsi ==
  PrintableAscii \cup {"u00e9", "u2022", "u2026", "u2013", "u2014"}

\* C13: for arbitrary Unicode input, the text sanitizeForPdf returns holds
\* only characters of the WinAnsi encoding of the built-in fonts.
C13_OutputInWinAnsi ==
  results # <<>> => \A i \in 1..Len(results[1]) : results[1][i] \in WinAnsi

\* what one character becomes: the replacement of its own rule, or itself
replacementOf(c) ==
  IF c \in TableChars
  THEN UNICODE_TO_ASCII[CHOOSE k \in 1..Len(UNICODE_TO_ASCII) :
                          c \in UNICODE_TO_ASCII[k].pattern].replacement
  ELSE <<c>>

\* every character of s replaced in place, in one pass
replacedInPlace(s) ==
  LET one(i) == replacementOf(s[i]) IN FlatMap(one, 1, Len(s))

\* "Step 1 > Step 2 - done [x]"
ExampleSanitized ==
  <<"S", "t", "e", "p", " ", "1", " ", ">", " ", "S", "t", "e", "p", " ",
    "2", " ", "-", " ", "d", "o", "n", "e", " ", "[", "x", "]">>

\* C14: the example text becomes "Step 1 > Step 2 - done [x]"; for a text
\* of printable ASCII and table characters only, the output has no character
\* outside printable ASCII and is the input with each table character
\* replaced, in place, by the replacement of its own rule.
C14_TableCharsReplaced ==
  results # <<>> =>
    /\ input = ExampleText => results[1] = ExampleSanitized
    /\ (\A i \in 1..Len(input) : input[i] \in PrintableAscii \cup TableChars)
         => /\ results[1] = replacedInPlace(input)
            /\ \A i \in 1..Len(results[1]) : results[1][i] \in PrintableAscii

\* the example text has been sanitized
C14_Witness ==
  /\ input = ExampleText
  /\ results # <<>>
  /\ results[1] = ExampleSanitized

\* C15: every character without a rule passes through unchanged and in
\* place (at the position the replacements before it leave it at), and an
\* ASCII-only input is returned unchanged.
C15_OthersUnchanged ==
  results # <<>> =>
    /\ Len(results[1]) = Len(replacedInPlace(input))
    /\ \A i \in 1..Len(input) :
         input[i] \notin TableChars =>
           results[1][Len(replacedInPlace(SubSeq(input, 1, i - 1))) + 1]
             = input[i]
    /\ (\A i \in 1..Len(input) : input[i] \in PrintableAscii)
         => results[1] = input

\* U+4E2D, which has no rule, came through behind the three characters that
\* replace U+2713
C15_Witness ==
  /\ Len(input) >= 2 /\ input[1] = "u2713" /\ input[2] = "u4e2d"
  /\ results # <<>>
  /\ SubSeq(results[1], 1, 4) = <<"[", "x", "]", "u4e2d">>

\* C16: rendering [heading 1 "Title", paragraph "Hello world", code
\* "a\nb\nc"] from a fresh renderer yields exactly 1 page with, in this
\* vertical order: the heading text, the separator line strictly below it,
\* the paragraph text below the line, one background rectangle below the
\* paragraph and exactly 3 code lines with y between its top and bottom.
C16_ExampleLayout ==
  input = ExampleTokens /\ phase = "returned" =>
    /\ rend.pages = 1
    /\ Len(Ops) = 7
    /\ \A k \in 1..7 : Ops[k].page = 1
    /\ Ops[1].kind = "text" /\ Ops[1].text = <<"T", "i", "t", "l", "e">>
    /\ Ops[2].kind = "line" /\ Ops[2].y > Ops[1].y
    /\ Ops[3].kind = "text" /\ Ops[3].y > Ops[2].y
    /\ Ops[3].text = <<"H", "e", "l", "l", "o", " ", "w", "o", "r", "l", "d">>
    /\ Ops[4].kind \in {"rect", "roundedRect"} /\ Ops[4].y > Ops[3].y
    /\ \A k \in 5..7 :
         /\ Ops[k].kind = "text"
         /\ Ops[k].text = <<AbcCode.text[2 * (k - 4) - 1]>>
         /\ Ops[4].y <= Ops[k].y /\ Ops[k].y <= Ops[4].y + Ops[4].h
         /\ k > 5 => Ops[k].y > Ops[k - 1].y

\* the render of the example has returned
C16_Witness ==
  /\ input = ExampleTokens
  /\ phase = "returned"
  /\ Len(hist) = 3
  /\ Len(Ops) = 7

\* the text operations writeLines emitted for the j-th token, in order
\* (renderHeading, renderParagraph, renderBlockquote and the html case call
\* it once each)
linesOfToken(j) ==
  SelectSeq(Ops, LAMBDA op :
    op.tok = j /\ op.src \in {"heading", "paragraph", "quote", "html"})

\* the font size the renderer of the token passes to writeLines
blockFontSize(token) ==
  IF token.type = "heading" THEN headingFontSize(token.depth) ELSE FONT_SIZES.body

\* C17: writeLines handles each line by ensureSpace(lineH), a text at
\* x = MARGIN and the current y, then y += lineH: every line drawn has
\* y + lineH <= pageHeight - MARGIN, two consecutive lines of a block on the
\* same page are exactly lineH apart, and a page break inside a block falls
\* between two lines: the next line is the first of the next page, at MARGIN.
C17_WriteLines ==
  \A j \in 1..Len(hist) :
    LET ops   == linesOfToken(j)
        lineH == lineHeight(blockFontSize(hist[j].token))
    IN  /\ hist[j].token.type \in {"paragraph", "html"} /\ Len(ops) > 0
             => ops[1].y = IF hist[j].y0 + lineH > pageHeight - MARGIN
                           THEN MARGIN ELSE hist[j].y0
        /\ \A k \in 1..Len(ops) :
             /\ ops[k].kind = "text"
             /\ ops[k].i = k
             /\ ops[k].x = MARGIN
             /\ ops[k].y + lineH <= pageHeight - MARGIN
             /\ k > 1 =>
                  IF ops[k].page = ops[k - 1].page
                  THEN ops[k].y = ops[k - 1].y + lineH
                  ELSE /\ ops[k].page = ops[k - 1].page + 1
                       /\ ops[k].y = MARGIN
                       /\ ops[k - 1].y + 2 * lineH > pageHeight - MARGIN

\* a block of lines that writeLines continued on the next page
C17_Witness ==
  \E j \in 1..Len(hist) :
    \E k \in 2..Len(linesOfToken(j)) :
      /\ linesOfToken(j)[k].page = linesOfToken(j)[k - 1].page + 1
      /\ linesOfToken(j)[k].y = MARGIN

\* the cursor, the page count and the number of operations when the j-th
\* token returned
yAfter(j)     == IF j < Len(hist) THEN hist[j + 1].y0 ELSE rend.y
pagesAfter(j) == IF j < Len(hist) THEN hist[j + 1].pages0 ELSE rend.pages
nopsAfter(j)  == IF j < Len(hist) THEN hist[j + 1].nops0 ELSE Len(Ops)

\* the calls of ensureSpace of the last token that started a page
breaksOfLastToken ==
  Cardinality({k \in 1..Len(rend.es) : rend.es[k].pages1 # rend.es[k].pages0})

\* C18: addSpace(h) changes only the cursor, y' = y + h: it emits no
\* operation and never adds a page, also when y + h is past the bottom
\* margin; the page count changes in no operation other than ensureSpace.
\* Stated of addSpace at every cursor reached, of every space token, and of
\* the pages each token added against the page breaks of its ensureSpace calls.
C18_AddSpaceOnlyMovesCursor ==
  /\ \A h \in ProbeHeights \cup {mm(2), mm(3)} :
       addSpace(rend, h) = [rend EXCEPT !.y = rend.y + h]
  /\ \A j \in 1..Len(hist) :
       hist[j].token.type = "space" =>
         /\ yAfter(j) = hist[j].y0 + mm(2)
         /\ pagesAfter(j) = hist[j].pages0
         /\ nopsAfter(j) = hist[j].nops0
  /\ Len(hist) > 0 =>
       rend.pages = hist[Len(hist)].pages0 + breaksOfLastToken

\* a space token that moved the cursor past the bottom margin on the same page
C18_Witness ==
  /\ Len(hist) > 0
  /\ hist[Len(hist)].token.type = "space"
  /\ rend.y = hist[Len(hist)].y0 + mm(2)
  /\ rend.y > pageHeight - MARGIN
  /\ rend.pages = hist[Len(hist)].pages0

\* C19: an html token whose text is empty after tag stripping, unescaping,
\* sanitizing and trimming emits no operation and leaves y and the page
\* count unchanged; a token of an unrecognized type does the same.
C19_SilentTokens ==
  \A j \in 1..Len(hist) :
    \/ /\ hist[j].token.type = "html"
       /\ trimIsEmpty(sanitizeForPdf(stripInlineHtml(hist[j].token.text)))
    \/ hist[j].token.type \notin
         {"heading", "paragraph", "code", "blockquote", "list", "table", "hr",
          "space", "html"}
    => /\ nopsAfter(j) = hist[j].nops0
       /\ yAfter(j) = hist[j].y0
       /\ pagesAfter(j) = hist[j].pages0

\* an html comment was rendered after a paragraph and left the renderer as
\* the paragraph had left it
C19_Witness ==
  /\ Len(hist) = 2
  /\ hist[1].token.type = "paragraph"
  /\ hist[2].token = HtmlComment
  /\ rend.pages = hist[2].pages0
  /\ hist[2].y0 > MARGIN
  /\ rend.y = hist[2].y0
  /\ Len(Ops) = hist[2].nops0

\* the text of the leaf tokens of an inline tree, in document order
RECURSIVE leafText(_)
leafText(tokens) ==
  LET part(k) ==
        IF "tokens" \in DOMAIN tokens[k] THEN leafText(tokens[k].tokens)
        ELSE tokens[k].text
  IN  FlatMap(part, 1, Len(tokens))

Entities ==
  { <<<<"&", "a", "m", "p", ";">>, "&">>,
    <<<<"&", "l", "t", ";">>, "<">>,
    <<<<"&", "g", "t", ";">>, ">">>,
    <<<<"&", "q", "u", "o", "t", ";">>, "\"">>,
    <<<<"&", "#", "3", "9", ";">>, "'">> }

\* one pass from left to right that replaces each entity by its character
RECURSIVE UnescapeOnceFrom(_, _)
UnescapeOnceFrom(s, i) ==
  IF i > Len(s) THEN <<>>
  ELSE LET here == { e \in Entities :
                       /\ i + Len(e[1]) - 1 <= Len(s)
                       /\ SubSeq(s, i, i + Len(e[1]) - 1) = e[1] }
       IN  IF here = {} THEN <<s[i]>> \o UnescapeOnceFrom(s, i + 1)
           ELSE LET e == CHOOSE e \in here : TRUE
                IN  <<e[2]>> \o UnescapeOnceFrom(s, i + Len(e[1]))

unescapeOnce(s) == UnescapeOnceFrom(s, 1)

\* C20: inlineTokensToText returns the concatenation, in document order, of
\* the text of the leaf tokens of the inline tree with the entities &amp;
\* &lt; &gt; &quot; &#39; unescaped once, whatever the nesting depth of a
\* leaf; an empty sequence gives the empty string.
C20_LeafTextsUnescapedOnce ==
  Len(results) = 1 => results[1] = unescapeOnce(leafText(input))

\* blockHeight of renderCode
codeBlockHeight(token) ==
  Len(codeLinesOf(token)) * lineHeight(FONT_SIZES.code) + mm(3) * 2

\* C21: for a code block whose height (lines*lineH + 2*padding) does not
\* exceed the usable page height, renderCode draws the background with that
\* full height and every text line of the block on the page of the
\* background, at a y between its top and its bottom.
C21_CodeBlockWhole ==
  \A j \in 1..Len(hist) :
    hist[j].token.type = "code"
    /\ codeBlockHeight(hist[j].token) <= pageHeight - 2 * MARGIN
    => LET ops == OpsOfToken(j)
       IN  /\ ops[1].kind = "roundedRect"
           /\ ops[1].h = codeBlockHeight(hist[j].token)
           /\ \A k \in 2..Len(ops) :
                /\ ops[k].page = ops[1].page
                /\ ops[1].y <= ops[k].y
                /\ ops[k].y <= ops[1].y + ops[1].h

\* blockHeight of renderBlockquote
quoteBlockHeight(token) ==
  Len(quoteLines(token)) * lineHeight(FONT_SIZES.body) + mm(3) * 2

\* C22: renderBlockquote draws the background and the 1-unit-wide accent
\* bar once, both with height lines*lineH + 2*padding at the same y, and
\* every wrapped line of the quote on the page of that rectangle at a y
\* between its top and its bottom, wherever the quote starts.
C22_QuoteInsideItsBlock ==
  \A j \in 1..Len(hist) :
    hist[j].token.type = "blockquote"
    => LET ops == OpsOfToken(j)
       IN  /\ Len(ops) = 2 + Len(quoteLines(hist[j].token))
           /\ ops[1].kind = "roundedRect" /\ ops[2].kind = "rect"
           /\ ops[2].w = mm(1)
           /\ ops[1].h = quoteBlockHeight(hist[j].token)
           /\ ops[2].h = ops[1].h
           /\ ops[2].y = ops[1].y /\ ops[2].page = ops[1].page
           /\ \A k \in 3..Len(ops) :
                /\ ops[k].kind = "text"
                /\ ops[k].page = ops[1].page
                /\ ops[1].y <= ops[k].y
                /\ ops[k].y <= ops[1].y + ops[1].h

\* the text operations of the code lines of the j-th token, in order
codeOpsOfToken(j) == SelectSeq(Ops, LAMBDA op : op.tok = j /\ op.src = "code")

\* the characters of one line that fit inside the padding of the block
codeFit == (contentWidth - mm(3) * 2) \div glyphWidth

\* C23: renderCode emits exactly one text operation per line of the code
\* text split on line breaks, in source order, at x = MARGIN + padding: a
\* line too long for the width is cut to its first segment and never
\* continued, an empty line still takes one line (drawn as " "), and the
\* cursor advances by exactly lineH per source line.
C23_OneOpPerCodeLine ==
  \A j \in 1..Len(hist) :
    hist[j].token.type = "code"
    => LET lines == splitLines(sanitizeForPdf(hist[j].token.text))
           ops   == codeOpsOfToken(j)
           lineH == lineHeight(FONT_SIZES.code)
       IN  /\ Len(ops) = Len(lines)
           /\ Len(OpsOfToken(j)) = Len(lines) + 1
           /\ \A k \in 1..Len(ops) :
                /\ ops[k].kind = "text"
                /\ ops[k].i = k
                /\ ops[k].x = MARGIN + mm(3)
                /\ ops[k].text =
                     IF lines[k] = <<>> THEN <<" ">>
                     ELSE SubSeq(lines[k], 1, Min(Len(lines[k]), codeFit))
                /\ k > 1 =>
                     IF ops[k].page = ops[k - 1].page
                     THEN ops[k].y = ops[k - 1].y + lineH
                     ELSE ops[k].page = ops[k - 1].page + 1 /\ ops[k].y = MARGIN
           /\ yAfter(j) = ops[Len(ops)].y + lineH + mm(3) + mm(3)

\* a code block with a line wider than the block and an empty line was
\* rendered: three lines, three operations
C23_Witness ==
  \E j \in 1..Len(hist) :
    /\ hist[j].token = WideCode
    /\ Len(codeOpsOfToken(j)) = 3
    /\ Len(codeOpsOfToken(j)[1].text) = codeFit
    /\ codeOpsOfToken(j)[2].text = <<" ">>
    /\ codeOpsOfToken(j)[3].y = codeOpsOfToken(j)[1].y + 2 * lineHeight(FONT_SIZES.code)

\* what C24 says of the operations one heading emitted
HeadingContract(token, ops) ==
  LET n     == Len(inlineLines(token))
      lineH == lineHeight(headingFontSize(token.depth))
  IN  /\ Len(ops) = IF token.depth = 1 THEN n + 1 ELSE n
      /\ \A k \in 1..n : ops[k].kind = "text"
      /\ token.depth = 1 =>
           /\ ops[n + 1].kind = "line"
           /\ ops[n + 1].x = MARGIN
           /\ ops[n + 1].x + ops[n + 1].w = MARGIN + contentWidth
           /\ ops[n + 1].page = ops[n].page
           /\ ops[n + 1].y = ops[n].y + lineH
           /\ ops[n + 1].y > ops[n].y

\* headings of every depth, of one and of two lines
ProbeHeadings == { Heading(depth, n) : depth \in 1..6, n \in 1..2 }

\* the operations a call emitted on top of those of the renderer it started from
opsAdded(q) == SubSeq(q.ops, Len(rend.ops) + 1, Len(q.ops))

\* C24: renderHeading draws a separator line only for depth 1: from
\* x = MARGIN to x = MARGIN + contentWidth, on the page of the heading's last
\* text line and at y = that line's y + lineH; a heading of depth 2 to 6
\* emits text operations only.  Stated of every heading rendered and of a
\* heading of each depth rendered at the cursor a render returned with.
C24_SeparatorOnlyForH1 ==
  /\ \A j \in 1..Len(hist) :
       hist[j].token.type = "heading"
         => HeadingContract(hist[j].token, OpsOfToken(j))
  /\ phase = "returned" =>
       \A token \in ProbeHeadings :
         HeadingContract(token, opsAdded(renderHeading(rend, token)))

\* a heading of depth 1 that started a page: text and separator are both on
\* the new page
C24_Witness ==
  /\ Len(hist) = 2
  /\ hist[2].token = Heading(1, 1)
  /\ rend.pages = hist[2].pages0 + 1
  /\ Len(OpsOfToken(2)) = 2
  /\ OpsOfToken(2)[2].kind = "line"
  /\ OpsOfToken(2)[2].page = rend.pages

\* the bullet and item operations of the j-th token, in the order emitted
listOpsOfToken(j) ==
  SelectSeq(Ops, LAMBDA op : op.tok = j /\ op.src \in {"bullet", "item"})

\* what C25 expects of a list, in order: per item its label, its own text
\* lines, then what it expects of every list among the item's tokens
RECURSIVE expectedListOps(_, _)
expectedListOps(token, indent) ==
  LET ofItem(k) ==
        LET item == token.items[k]
            subs == SelectSeq(item.tokens, LAMBDA t : t.type = "list")
            own  == itemLines(item, indent)
            nested(n) == expectedListOps(subs[n], indent + 1)
        IN  <<[src |-> "bullet", d |-> indent,
               text |-> IF token.ordered THEN <<ToString(k), ".">> ELSE <<"-">>]>>
            \o [n \in 1..Len(own) |-> [src |-> "item", d |-> indent, text |-> own[n]]]
            \o FlatMap(nested, 1, Len(subs))
  IN  FlatMap(ofItem, 1, Len(token.items))

\* C25: the k-th item of an ordered list (k from 1 within its own list,
\* restarting in every nested list) is labelled "k." and every item of an
\* unordered list "-"; items are emitted in document order, each as one
\* bullet, then its text lines, then all operations of its nested lists,
\* before the bullet of the next sibling.  For the list nested NestDepth
\* deep the sequence is stated directly: "-" and one text line per level.
C25_ListLabelsAndOrder ==
  \A j \in 1..Len(hist) :
    hist[j].token.type = "list" =>
      LET ops == listOpsOfToken(j)
      IN  IF hist[j].token = NestedList(NestDepth)
          THEN /\ Len(ops) = 2 * (NestDepth + 1)
               /\ \A k \in 1..Len(ops) :
                    IF k % 2 = 1
                    THEN ops[k].src = "bullet" /\ ops[k].text = <<"-">>
                                               /\ ops[k].d = (k - 1) \div 2
                    ELSE ops[k].src = "item" /\ ops[k].d = (k - 1) \div 2
          ELSE LET expected == expectedListOps(hist[j].token, 0)
               IN  /\ Len(ops) = Len(expected)
                   /\ \A k \in 1..Len(ops) :
                        /\ ops[k].src = expected[k].src
                        /\ ops[k].text = expected[k].text
                        /\ ops[k].d = expected[k].d

\* the ordered list with nested lists was rendered: labels 1. 1. 2. - 2. 3.
C25_Witness ==
  \E j \in 1..Len(hist) :
    /\ hist[j].token = OrderedTree
    /\ LET bullets == SelectSeq(listOpsOfToken(j), LAMBDA op : op.src = "bullet")
       IN  [k \in 1..Len(bullets) |-> bullets[k].text]
             = << <<"1", ".">>, <<"1", ".">>, <<"2", ".">>, <<"-">>,
                  <<"2", ".">>, <<"3", ".">> >>

\* what C26 says of the operations one table emitted
TableContract(token, ops) ==
  LET colWidth    == contentWidth \div Len(token.header)
      cellPadding == mm(2)
      cellsOf(row) == SelectSeq(ops, LAMBDA op : op.src \in {"th", "td"} /\ op.i = row)
      topOf(row) ==
        ops[CHOOSE k \in 1..Len(ops) :
              IF row = 0 THEN ops[k].src = "thFill"
              ELSE ops[k].src = "rowRule" /\ ops[k].i = row]
      cellsExpected(row) == IF row = 0 THEN token.header ELSE token.rows[row]
  IN  \A row \in 0..Len(token.rows) :
        LET cells    == cellsOf(row)
            top      == topOf(row)
            expected == cellsExpected(row)
        IN  /\ Len(cells) = Len(expected)
            /\ \A c \in 1..Len(cells) :
                 /\ cells[c].kind = "text"
                 /\ cells[c].d = c - 1
                 /\ cells[c].x = MARGIN + (c - 1) * colWidth + cellPadding
                 /\ cells[c].y = top.y + cellPadding
                 /\ cells[c].page = top.page
                 /\ Len(expected) = Len(token.header)
                      => cells[c].x < MARGIN + contentWidth
            /\ row > 0 =>
                 LET prev == topOf(row - 1)
                 IN  IF top.page = prev.page
                     THEN top.y = prev.y + rowHeight
                     ELSE top.page = prev.page + 1 /\ top.y = MARGIN

\* tables to render at the cursor a render returned with
ProbeTables == {MixedTable}

\* C26: renderTable uses colWidth = contentWidth / (header length) for
\* every column; for the header and each body row it emits exactly one text
\* per cell, cell i at x = MARGIN + i*colWidth + cellPadding, all cells of a
\* row at the same y, and every row advances the cursor by exactly
\* lineH + 2*cellPadding whatever the cell contents, so every cell text of a
\* row with as many cells as the header starts left of MARGIN + contentWidth.
\* Stated of every table rendered that has a header and of the probe tables
\* rendered at the cursor a render returned with.
C26_TableGrid ==
  /\ \A j \in 1..Len(hist) :
       hist[j].token.type = "table" /\ Len(hist[j].token.header) > 0
         => TableContract(hist[j].token, OpsOfToken(j))
  /\ phase = "returned" =>
       \A token \in ProbeTables :
         TableContract(token, opsAdded(renderTable(rend, token)))

\* a table of 3 columns and 33 rows was rendered: the third cell of its last
\* row starts two column widths and a padding right of the margin
C26_Witness ==
  \E k \in 1..Len(Ops) :
    /\ hist[Ops[k].tok].token = Table(3, 33)
    /\ Ops[k].src = "td" /\ Ops[k].i = 33 /\ Ops[k].d = 2
    /\ Ops[k].x = MARGIN + 2 * (contentWidth \div 3) + mm(2)

\* C27: drawing operations are emitted in document order without backward
\* passes: the page indices of successive operations never decrease and no
\* operation is on a page past the last one, on one page the y of
\* successively emitted operations never decreases, and the cursor is lower
\* after a token than before it only when the token started a page.
C27_NoBackwardPass ==
  /\ \A k \in 1..Len(Ops) :
       /\ 1 <= Ops[k].page /\ Ops[k].page <= rend.pages
       /\ k > 1 =>
            /\ Ops[k - 1].page <= Ops[k].page
            /\ Ops[k - 1].page = Ops[k].page => Ops[k - 1].y <= Ops[k].y
            /\ Ops[k - 1].tok <= Ops[k].tok
  /\ \A j \in 1..Len(hist) :
       yAfter(j) < hist[j].y0 => pagesAfter(j) > hist[j].pages0

\* two successive operations on two pages, the later one higher on its page
C27_Witness ==
  \E k \in 2..Len(Ops) :
    /\ Ops[k].page = Ops[k - 1].page + 1
    /\ Ops[k].y = MARGIN
    /\ Ops[k].y < Ops[k - 1].y

\* the operations drawn on page p, in the order emitted
opsOnPage(p) == SelectSeq(Ops, LAMBDA op : op.page = p)

\* C28: every page added by ensureSpace receives a drawing operation before
\* the cursor moves again: in every reachable state each page other than the
\* first holds at least one operation, the first of them at y = MARGIN where
\* ensureSpace left the cursor, and the page count never exceeds 1 + the
\* number of operations emitted.
C28_AddedPagesAreDrawnOn ==
  /\ \A p \in 2..rend.pages :
       /\ Len(opsOnPage(p)) >= 1
       /\ opsOnPage(p)[1].y = MARGIN
  /\ rend.pages <= 1 + Len(Ops)

\* a render of three pages or more, the last one just started by a token
C28_Witness ==
  /\ rend.pages >= 3
  /\ Len(hist) > 0
  /\ rend.pages > hist[Len(hist)].pages0
  /\ Len(opsOnPage(rend.pages)) >= 1

\* the bullets of the j-th token, in the order emitted
bulletsOfToken(j) ==
  SelectSeq(Ops, LAMBDA op : op.tok = j /\ op.src = "bullet")

\* C29: in renderList the bullet of an item and the first text line of that
\* item are drawn on the same page at the same y (the second
\* ensureSpace(lineH) never breaks the page between them), and the bullets
\* of two successive items on one page are at least lineH apart.
C29_BulletWithItsLine ==
  \A j \in 1..Len(hist) :
    hist[j].token.type = "list" =>
      LET ops     == listOpsOfToken(j)
          bullets == bulletsOfToken(j)
          lineH   == lineHeight(FONT_SIZES.body)
      IN  /\ \A k \in 1..Len(ops) :
               ops[k].src = "bullet" =>
                 /\ k < Len(ops)
                 /\ ops[k + 1].src = "item"
                 /\ ops[k + 1].i = ops[k].i /\ ops[k + 1].d = ops[k].d
                 /\ ops[k + 1].page = ops[k].page
                 /\ ops[k + 1].y = ops[k].y
          /\ \A k \in 2..Len(bullets) :
               bullets[k].page = bullets[k - 1].page
                 => bullets[k].y >= bullets[k - 1].y + lineH

\* a list that found no room for a line: its first bullet and the first line
\* of its item are both at the top of the page it started, the next bullet
\* below them
C29_Witness ==
  \E j \in 1..Len(hist) :
    /\ hist[j].token.type = "list"
    /\ hist[j].y0 + lineHeight(FONT_SIZES.body) > pageHeight - MARGIN
    /\ Len(bulletsOfToken(j)) >= 2
    /\ bulletsOfToken(j)[1].page = hist[j].pages0 + 1
    /\ bulletsOfToken(j)[1].y = MARGIN
    /\ listOpsOfToken(j)[2].page = hist[j].pages0 + 1
    /\ bulletsOfToken(j)[2].y > MARGIN

\* the calls of handleExport that have not settled
inFlight == {k \in Clicks : fn[k] = "pending"}

\* C30: in ExportDropdown, for every interleaving of menu clicks and export
\* completions (success or failure), loading is true in every state where
\* at least one export started by handleExport has not yet settled, and it
\* is false once no export is in flight.
C30_LoadingWhileInFlight ==
  /\ inFlight # {} => loading
  /\ inFlight = {} => ~loading

=============================================================================
